---- MODULE Spec2Model ----
(***************************************************************************)
(* CloudStorageFileReader                                                  *)
(* (tensorlakehouse_openeo_driver/file_reader/cloud_storage_file_reader.py)*)
(*                                                                         *)
(* Strings are sequences of one-character strings, so that lower(),        *)
(* startswith(), find() and slicing are computed as Python computes them.  *)
(* Indices of Find and Slice are Python's (0-based, end exclusive).        *)
(***************************************************************************)
EXTENDS Integers, Sequences, FiniteSets, TLC

VARIABLES
    pc,          \* position of the constructor call: new/validated/extracted/credentialed/ready/failed
    args,        \* the constructor's arguments (items, bands, bbox, temporal_extent, properties)
    reader,      \* the instance's fields, set as __init__ assigns them
    calls,       \* the external collaborators called so far, in order
    ret,         \* what the last method call returned (or that it raised)
    url,         \* the argument of the static URL helpers
    item         \* the argument of the static cube:dimensions helpers

vars == <<pc, args, reader, calls, ret, url, item>>

(***************************************************************************)
(* Python str helpers                                                      *)
(***************************************************************************)
Min(a, b) == IF a <= b THEN a ELSE b

Max(a, b) == IF a >= b THEN a ELSE b

\* s[a:b]
Slice(s, a, b) == SubSeq(s, Max(a, 0) + 1, Min(b, Len(s)))

\* s[a:]
SliceFrom(s, a) == Slice(s, a, Len(s))

\* s.find(c, start) for a one-character c: the lowest index >= start, or -1
Find(s, c, start) ==
    LET hits == {i \in start..(Len(s) - 1) : s[i + 1] = c}
    IN IF hits = {} THEN -1 ELSE CHOOSE i \in hits : \A j \in hits : i <= j

\* s.rfind(c)
RFind(s, c) ==
    LET hits == {i \in 0..(Len(s) - 1) : s[i + 1] = c}
    IN IF hits = {} THEN -1 ELSE CHOOSE i \in hits : \A j \in hits : i >= j

\* s.startswith(p)
StartsWith(s, p) == Len(s) >= Len(p) /\ SubSeq(s, 1, Len(p)) = p

UpperLetters == {"B", "H", "O", "P", "S", "T"}

LowerLetters == {"b", "f", "h", "o", "p", "q", "s", "t", "u"}

Digits == {"3", "8"}

LowerOf == ("B" :> "b") @@ ("H" :> "h") @@ ("O" :> "o") @@ ("P" :> "p")
           @@ ("S" :> "s") @@ ("T" :> "t")

\* c.lower()
LowerChar(c) == IF c \in UpperLetters THEN LowerOf[c] ELSE c

\* s.lower()
Lower(s) == [i \in 1..Len(s) |-> LowerChar(s[i])]

(***************************************************************************)
(* urllib.parse.urlparse, as far as the reader uses it: scheme, netloc,    *)
(* path and hostname (CPython 3.11 urlsplit/urlparse/_hostinfo).  The      *)
(* alphabet holds no whitespace, control characters or brackets.           *)
(***************************************************************************)
SchemeChars == UpperLetters \cup LowerLetters \cup Digits \cup {"+", "-", "."}

UsesParams == {<<>>, <<"f", "t", "p">>, <<"h", "t", "t", "p">>,
               <<"h", "t", "t", "p", "s">>}

\* _splitnetloc(url, 2): the end of the domain part
NetlocEnd(u) ==
    LET ends == {Find(u, c, 2) : c \in {"/", "?", "#"}} \ {-1}
    IN IF ends = {} THEN Len(u)
       ELSE CHOOSE i \in ends : \A j \in ends : i <= j

\* url.split(c, 1)[0] when c is in url
Before(s, c) == IF Find(s, c, 0) >= 0 THEN Slice(s, 0, Find(s, c, 0)) ELSE s

\* _splitparams(url)[0]
SplitParams(p) ==
    LET i == IF Find(p, "/", 0) >= 0 THEN Find(p, ";", RFind(p, "/"))
             ELSE Find(p, ";", 0)
    IN IF i < 0 THEN p ELSE Slice(p, 0, i)

UrlParse(u) ==
    LET i == Find(u, ":", 0)
        hasScheme == /\ i > 0
                     /\ u[1] \in UpperLetters \cup LowerLetters
                     /\ \A k \in 1..i : u[k] \in SchemeChars
        scheme == IF hasScheme THEN Lower(Slice(u, 0, i)) ELSE <<>>
        u1 == IF hasScheme THEN SliceFrom(u, i + 1) ELSE u
        hasNetloc == Slice(u1, 0, 2) = <<"/", "/">>
        netloc == IF hasNetloc THEN Slice(u1, 2, NetlocEnd(u1)) ELSE <<>>
        u2 == IF hasNetloc THEN SliceFrom(u1, NetlocEnd(u1)) ELSE u1
        u3 == Before(Before(u2, "#"), "?")
        path == IF scheme \in UsesParams /\ Find(u3, ";", 0) >= 0
                THEN SplitParams(u3) ELSE u3
    IN [scheme |-> scheme, netloc |-> netloc, path |-> path]

\* ParseResult.hostname: None (isStr FALSE) when the host part is empty
Hostname(netloc) ==
    LET at == RFind(netloc, "@")
        hostinfo == IF at >= 0 THEN SliceFrom(netloc, at + 1) ELSE netloc
        host == Before(hostinfo, ":")
    IN IF host = <<>> THEN [isStr |-> FALSE, val |-> <<>>]
       ELSE [isStr |-> TRUE, val |-> Lower(host)]

(***************************************************************************)
(* The static URL helpers.  A result is [ok, val]: ok FALSE is a raised    *)
(* AssertionError.                                                         *)
(***************************************************************************)
Raised == [ok |-> FALSE, val |-> <<>>]

Returned(v) == [ok |-> TRUE, val |-> v]

S3Scheme == <<"s", "3">>

Http == <<"h", "t", "t", "p">>

HttpPrefix == <<"h", "t", "t", "p", ":", "/", "/">>

HttpsPrefix == <<"h", "t", "t", "p", "s", ":", "/", "/">>

S3Prefix == <<"s", "3", ":", "/", "/">>

\* ExtractBucketNameFromUrl searching from the leading slash itself
ExtractBucketNameFromUrl_FromZero(u) ==
    LET url_parsed == UrlParse(u)
        hostname == Hostname(url_parsed.netloc)
        begin_bucket_name == 0
        end_bucket_name == Find(url_parsed.path, "/", begin_bucket_name)
    IN IF Lower(url_parsed.scheme) = S3Scheme /\ hostname.isStr
       THEN Returned(hostname.val)
       ELSE IF end_bucket_name > begin_bucket_name
            THEN Returned(Slice(url_parsed.path, begin_bucket_name, end_bucket_name))
            ELSE Raised

ExtractBucketNameFromUrl(u) ==
    LET url_parsed == UrlParse(u)
        hostname == Hostname(url_parsed.netloc)
        begin_bucket_name == 1
        end_bucket_name == Find(url_parsed.path, "/", begin_bucket_name)
    IN IF Lower(url_parsed.scheme) = S3Scheme /\ hostname.isStr
       THEN Returned(hostname.val)
       ELSE IF end_bucket_name > begin_bucket_name
            THEN Returned(Slice(url_parsed.path, begin_bucket_name, end_bucket_name))
            ELSE Raised

\* GetObject that keeps the slash it found
GetObject_KeepsSlash(u) ==
    LET begin_bucket_name == 1
        url_parsed == UrlParse(u)
        slash_index == Find(url_parsed.path, "/", begin_bucket_name)
    IN IF slash_index > begin_bucket_name
       THEN Returned(SliceFrom(url_parsed.path, slash_index))
       ELSE Raised

GetObject(u) ==
    LET begin_bucket_name == 1
        url_parsed == UrlParse(u)
        slash_index == Find(url_parsed.path, "/", begin_bucket_name) + 1
    IN IF slash_index > begin_bucket_name
       THEN Returned(SliceFrom(url_parsed.path, slash_index))
       ELSE Raised

ConvertHttpsToS3(u) ==
    LET bucket == ExtractBucketNameFromUrl(u)
        object == GetObject(u)
    IN IF ~StartsWith(Lower(u), Http) THEN Raised
       ELSE IF ~bucket.ok \/ ~object.ok THEN Raised
       ELSE Returned(S3Prefix \o bucket.val \o <<"/">> \o object.val)

(***************************************************************************)
(* __init__: the validations, in the order of the asserts.                 *)
(* A list or tuple argument is [isList/isTuple, elems]; a temporal extent  *)
(* is [isNone, elems], its elements [kind, t] with kind datetime/none/str. *)
(***************************************************************************)
\* assert isinstance(items, list); assert len(items) > 0
ItemsAsserts(items) == items.isList /\ Len(items.elems) > 0

\* BboxAsserts without the order of west and east, south and north
BboxAsserts_Unordered(bbox) ==
    /\ bbox.isTuple
    /\ Len(bbox.elems) = 4
    /\ -180 <= bbox.elems[1] /\ bbox.elems[1] <= 180
    /\ -180 <= bbox.elems[3] /\ bbox.elems[3] <= 180
    /\ -90 <= bbox.elems[2] /\ bbox.elems[2] <= 90
    /\ -90 <= bbox.elems[4] /\ bbox.elems[4] <= 90

BboxAsserts(bbox) ==
    /\ bbox.isTuple
    /\ Len(bbox.elems) = 4
    /\ LET west == bbox.elems[1]
           south == bbox.elems[2]
           east == bbox.elems[3]
           north == bbox.elems[4]
       IN /\ -180 <= west /\ west <= east /\ east <= 180
          /\ -90 <= south /\ south <= north /\ north <= 90

\* TemporalExtentAsserts without the comparison of start and end
TemporalExtentAsserts_NoOrder(te) ==
    IF ~te.isNone /\ Len(te.elems) > 0
    THEN /\ te.elems[1].kind = "datetime"
         /\ Len(te.elems) >= 2
         /\ te.elems[2].kind # "none" => te.elems[2].kind = "datetime"
    ELSE TRUE

\* temporal_extent[1] of a 1-tuple raises IndexError
TemporalExtentAsserts(te) ==
    IF ~te.isNone /\ Len(te.elems) > 0
    THEN /\ te.elems[1].kind = "datetime"
         /\ Len(te.elems) >= 2
         /\ te.elems[2].kind # "none" =>
                /\ te.elems[2].kind = "datetime"
                /\ te.elems[1].t <= te.elems[2].t
    ELSE TRUE

\* FirstHref reading the last item instead of the first
FirstHref_LastItem(items) ==
    LET assets == items[Len(items)].assets
    IN IF Len(assets) = 0 THEN [ok |-> FALSE, val |-> <<>>]
       ELSE [ok |-> TRUE, val |-> assets[1].href]

\* items[0]["assets"], next(iter(assets.values())), asset_values["href"]:
\* assets are the dict's values in insertion order; none raises StopIteration
FirstHref(items) ==
    LET assets == items[1].assets
    IN IF Len(assets) = 0 THEN Raised ELSE Returned(assets[1].href)

\* object_storage_util.get_credentials_by_bucket: a lookup keyed by bucket
\* that returns the endpoint, the access key id and the secret access key
GetCredentialsByBucket(bucket) ==
    [endpoint |->
        CASE bucket = <<"b">> -> <<"H", "T", "T", "P", "S", ":", "/", "/", "H">>
          [] bucket = <<"o", "b">> -> <<"h", "t", "t", "p", ":", "/", "/", "h">>
          [] bucket = <<"B">> -> <<"h", "t", "t", "p", "s", ":", "/", "/", "h">>
          [] bucket = <<"h">> -> <<"H">>
          [] OTHER -> <<"h">>,
     access_key_id |-> <<"access_key_id of">> \o bucket,
     secret_access_key |-> <<"secret_access_key of">> \o bucket]

\* object_storage_util.parse_region: the region named by the endpoint
ParseRegion(endpoint) == <<"region of">> \o endpoint

\* Endpoint without lower()
Endpoint_AsStored(r) == r._endpoint

\* the endpoint property
Endpoint(r) == Lower(r._endpoint)

(***************************************************************************)
(* __init__ as steps: the asserts, the bucket of the first asset, the      *)
(* credential lookup, the region.  An exception ends it (pc = "failed").   *)
(***************************************************************************)
Validate ==
    /\ pc = "new"
    /\ IF /\ ItemsAsserts(args.items)
          /\ BboxAsserts(args.bbox)
          /\ TemporalExtentAsserts(args.temporal_extent)
       THEN /\ pc' = "validated"
            /\ reader' = [items |-> args.items.elems, bbox |-> args.bbox.elems,
                          bands |-> args.bands,
                          temporal_extent |-> args.temporal_extent]
       ELSE /\ pc' = "failed"
            /\ UNCHANGED reader
    /\ UNCHANGED <<args, calls, ret, url, item>>

DeriveBucket ==
    /\ pc = "validated"
    /\ LET href == FirstHref(reader.items)
           bucket == IF href.ok THEN ExtractBucketNameFromUrl(href.val) ELSE Raised
       IN IF bucket.ok
          THEN /\ pc' = "extracted"
               /\ reader' = reader @@ [bucket |-> bucket.val]
          ELSE /\ pc' = "failed"
               /\ UNCHANGED reader
    /\ UNCHANGED <<args, calls, ret, url, item>>

FetchCredentials ==
    /\ pc = "extracted"
    /\ LET credentials == GetCredentialsByBucket(reader.bucket)
       IN reader' = reader @@ [_endpoint |-> credentials.endpoint,
                               access_key_id |-> credentials.access_key_id,
                               secret_access_key |-> credentials.secret_access_key]
    /\ calls' = Append(calls, [fn |-> "get_credentials_by_bucket", arg |-> reader.bucket])
    /\ pc' = "credentialed"
    /\ UNCHANGED <<args, ret, url, item>>

SetRegion ==
    /\ pc = "credentialed"
    /\ reader' = reader @@ [region |-> ParseRegion(Endpoint(reader)),
                            properties |-> args.properties]
    /\ calls' = Append(calls, [fn |-> "parse_region", arg |-> Endpoint(reader)])
    /\ pc' = "ready"
    /\ UNCHANGED <<args, ret, url, item>>

(***************************************************************************)
(* Property filters.  properties is [kind, entries]: kind none/dict/list,  *)
(* entries the dict's items in insertion order, each [name, process_graph].*)
(* A property name is its sequence of tokens, "." being a token of its     *)
(* own; a process graph is [isDict, nodes], nodes its values in insertion  *)
(* order; an argument is [kind, v] with kind ref/lit/absent.               *)
(***************************************************************************)
\* the first tokens a name that starts with "cube:dimensions" can have
CubeDimensionsPrefixed == {"cube:dimensions", "cube:dimensions_extra"}

\* property_name.startswith("cube:dimensions")
StartsWithCubeDimensions(name) == Len(name) > 0 /\ name[1] \in CubeDimensionsPrefixed

\* property_name.split(".")
RECURSIVE SplitDot(_)
SplitDot(name) ==
    LET i == Find(name, ".", 0)
    IN IF i < 0 THEN <<name>>
       ELSE <<Slice(name, 0, i)>> \o SplitDot(SliceFrom(name, i + 1))

\* NodeValue with the two branches swapped
NodeValue_Swapped(node) ==
    LET arguments == node.arguments
    IN IF arguments.x.kind = "absent" THEN Raised
       ELSE IF arguments.x.kind = "ref"
            THEN Returned(arguments.x)
            ELSE IF arguments.y.kind = "absent" THEN Raised ELSE Returned(arguments.y)

\* value = arguments["y"] if isinstance(arguments["x"], ParameterReference)
\* else arguments["x"]; a missing key raises KeyError
NodeValue(node) ==
    LET arguments == node.arguments
    IN IF arguments.x.kind = "absent" THEN Raised
       ELSE IF arguments.x.kind = "ref"
            THEN IF arguments.y.kind = "absent" THEN Raised ELSE Returned(arguments.y)
            ELSE Returned(arguments.x)

IsEq(process_id) == process_id \in {"eq", "="}

\* dict assignment d[k] = v
DictSet(d, k, v) == (k :> v) @@ d

\* the loop over process_graph.values() of get_extra_dimensions_filter
RECURSIVE FilterNodes(_, _, _)
FilterNodes(nodes, dimension_name, extra_dim_filter) ==
    IF nodes = <<>> THEN Returned(extra_dim_filter)
    ELSE LET process_graph_values == Head(nodes)
             value == NodeValue(process_graph_values)
         IN IF ~value.ok THEN Raised
            ELSE FilterNodes(Tail(nodes), dimension_name,
                     IF IsEq(process_graph_values.process_id)
                     THEN DictSet(extra_dim_filter, dimension_name, value.val)
                     ELSE extra_dim_filter)

\* the loop over self.properties.items() of get_extra_dimensions_filter
RECURSIVE FilterEntries(_, _)
FilterEntries(entries, extra_dim_filter) ==
    IF entries = <<>> THEN Returned(extra_dim_filter)
    ELSE LET property_name == Head(entries).name
             fields == SplitDot(property_name)
             process_graph == Head(entries).process_graph
             after == FilterNodes(process_graph.nodes, fields[2], extra_dim_filter)
         IN IF ~StartsWithCubeDimensions(property_name)
            THEN FilterEntries(Tail(entries), extra_dim_filter)
            ELSE IF Len(fields) < 2 \/ ~process_graph.isDict THEN Raised
            ELSE IF ~after.ok THEN Raised
            ELSE FilterEntries(Tail(entries), after.val)

EmptyDict == <<>>

GetExtraDimensionsFilter(properties) ==
    IF properties.kind = "dict" THEN FilterEntries(properties.entries, EmptyDict)
    ELSE Returned(EmptyDict)

\* Sel that checks the label and returns the dataset as it was
Sel_KeepsAll(dataset, dimension_name, value) ==
    IF /\ dimension_name \in DOMAIN dataset
       /\ value.kind = "lit"
       /\ value.v \in dataset[dimension_name]
    THEN [ok |-> TRUE, val |-> dataset]
    ELSE [ok |-> FALSE, val |-> <<>>]

\* dataset.sel({dimension_name: [value]}) on a dataset given as the
\* coordinate values of each of its dimensions: a KeyError when the dataset
\* has no such dimension or the dimension no such coordinate
Sel(dataset, dimension_name, value) ==
    IF /\ dimension_name \in DOMAIN dataset
       /\ value.kind = "lit"
       /\ value.v \in dataset[dimension_name]
    THEN Returned([dataset EXCEPT ![dimension_name] = {value.v}])
    ELSE Raised

\* the loop over process_graph.values() of _filter_by_extra_dimensions
RECURSIVE SelectNodes(_, _, _)
SelectNodes(nodes, dimension_name, dataset) ==
    IF nodes = <<>> THEN Returned(dataset)
    ELSE LET process_graph_values == Head(nodes)
             value == NodeValue(process_graph_values)
             selected == Sel(dataset, dimension_name, value.val)
         IN IF ~value.ok THEN Raised
            ELSE IF ~IsEq(process_graph_values.process_id)
                 THEN SelectNodes(Tail(nodes), dimension_name, dataset)
            ELSE IF ~selected.ok THEN Raised
            ELSE SelectNodes(Tail(nodes), dimension_name, selected.val)

\* the loop over self.properties.items() of _filter_by_extra_dimensions
RECURSIVE SelectEntries(_, _)
SelectEntries(entries, dataset) ==
    IF entries = <<>> THEN Returned(dataset)
    ELSE LET property_name == Head(entries).name
             fields == SplitDot(property_name)
             process_graph == Head(entries).process_graph
             after == SelectNodes(process_graph.nodes, fields[2], dataset)
         IN IF ~StartsWithCubeDimensions(property_name)
            THEN SelectEntries(Tail(entries), dataset)
            ELSE IF Len(fields) < 2 \/ ~process_graph.isDict THEN Raised
            ELSE IF ~after.ok THEN Raised
            ELSE SelectEntries(Tail(entries), after.val)

FilterByExtraDimensions(properties, dataset) ==
    IF properties.kind = "dict" THEN SelectEntries(properties.entries, dataset)
    ELSE Returned(dataset)

(***************************************************************************)
(* The other instance methods                                              *)
(***************************************************************************)
GetPolygon(r) ==
    LET xmin == r.bbox[1]
        ymin == r.bbox[2]
        xmax == r.bbox[3]
        ymax == r.bbox[4]
    IN Returned(<<<<xmin, ymin>>, <<xmin, ymax>>, <<xmax, ymax>>, <<xmax, ymin>>>>)

CreateBoto3Session(r) ==
    Returned([aws_access_key_id |-> r.access_key_id,
              aws_secret_access_key |-> r.secret_access_key,
              region_name |-> r.region])

CreateS3Filesystem(r) ==
    LET endpoint_url == IF StartsWith(Endpoint(r), HttpsPrefix)
                        THEN Endpoint(r)
                        ELSE HttpsPrefix \o Endpoint(r)
    IN Returned([anon |-> FALSE, endpoint_url |-> endpoint_url,
                 key |-> r.access_key_id, secret |-> r.secret_access_key])

(***************************************************************************)
(* URL helpers as operations: the static methods called on a URL.          *)
(***************************************************************************)
NoRet == [op |-> "none", ok |-> TRUE, val |-> <<>>, arg |-> <<>>]

Ret(op, r, a) == [op |-> op, ok |-> r.ok, val |-> r.val, arg |-> a]

\* Bounds of the URL inputs
MaxSegs == 3

UrlSchemes == {<<>>, <<"s", "3", ":">>, <<"S", "3", ":">>, <<"h", "t", "t", "p", ":">>,
               <<"h", "t", "t", "p", "s", ":">>, <<"H", "T", "T", "P", "S", ":">>,
               <<"f", "t", "p", ":">>}

UrlAuthorities == {<<>>, <<"/", "/">>, <<"/", "/", "h">>, <<"/", "/", "b">>,
                   <<"/", "/", "B">>, <<"/", "/", "u", "@", "b">>,
                   <<"/", "/", "b", ":", "8">>}

UrlSegments == {<<>>, <<"b">>, <<"B">>, <<"o", "b">>}

UrlTails == {<<>>, <<"?", "q">>, <<"#", "f">>, <<";", "p">>}

RECURSIVE PathsOfLen(_)
PathsOfLen(n) ==
    IF n = 0 THEN {<<>>}
    ELSE {p \o <<"/">> \o s : p \in PathsOfLen(n - 1), s \in UrlSegments}

UrlPaths == UNION {PathsOfLen(n) : n \in 0..MaxSegs}

\* absolute paths, and the same paths without their leading slash
UrlPathForms == UrlPaths \cup {Tail(p) : p \in UrlPaths \ {<<>>}}

Urls == {sc \o au \o p \o t : sc \in UrlSchemes, au \in UrlAuthorities,
                              p \in UrlPathForms, t \in UrlTails}

NoReader == [constructed |-> FALSE]

NoArgs == [given |-> FALSE]

NoItem == <<>>

InitUrl ==
    /\ url \in Urls
    /\ ret = NoRet
    /\ pc = "static"
    /\ args = NoArgs
    /\ reader = NoReader
    /\ calls = <<>>
    /\ item = NoItem

CallExtractBucketNameFromUrl ==
    /\ pc = "static"
    /\ ret' = Ret("_extract_bucket_name_from_url", ExtractBucketNameFromUrl(url), url)
    /\ UNCHANGED <<pc, args, reader, calls, url, item>>

CallGetObject ==
    /\ pc = "static"
    /\ ret' = Ret("_get_object", GetObject(url), url)
    /\ UNCHANGED <<pc, args, reader, calls, url, item>>

CallConvertHttpsToS3 ==
    /\ pc = "static"
    /\ ret' = Ret("_convert_https_to_s3", ConvertHttpsToS3(url), url)
    /\ UNCHANGED <<pc, args, reader, calls, url, item>>

NextUrl ==
    \/ CallExtractBucketNameFromUrl
    \/ CallGetObject
    \/ CallConvertHttpsToS3

SpecUrl == InitUrl /\ [][NextUrl]_vars

(***************************************************************************)
(* The reader's life: the constructor arguments, then the methods.         *)
(***************************************************************************)
\* Bounds of the constructor arguments
MaxItems == 2

MaxProps == 2

MaxNodes == 2

Tuple(e) == [isTuple |-> TRUE, elems |-> e]

BboxArgs ==
    {Tuple(<<w, s, e, n>>) : w \in {-181, -180, 180, 181}, s \in {-91, -90, 90, 91},
                             e \in {-181, -180, 180, 181}, n \in {-91, -90, 90, 91}}
    \cup {Tuple(<<-180, -90, 180>>), Tuple(<<-180, -90, 180, 90, 0>>),
          [isTuple |-> FALSE, elems |-> <<-180, -90, 180, 90>>]}

FewBboxArgs == {Tuple(<<-180, -90, 180, 90>>), Tuple(<<0, 0, 10, 10>>),
                Tuple(<<10, 0, 0, 10>>)}

Datetime(t) == [kind |-> "datetime", t |-> t]

NoneValue == [kind |-> "none", t |-> 0]

StrValue == [kind |-> "str", t |-> 0]

Extent(e) == [isNone |-> FALSE, elems |-> e]

TemporalArgs ==
    {[isNone |-> TRUE, elems |-> <<>>], Extent(<<>>), Extent(<<Datetime(1)>>)}
    \cup {Extent(<<a, b>>) : a \in {Datetime(1), Datetime(2), NoneValue, StrValue},
                             b \in {Datetime(1), NoneValue, StrValue}}

FewTemporalArgs == {Extent(<<Datetime(1), Datetime(2)>>), Extent(<<Datetime(1), NoneValue>>),
                    Extent(<<Datetime(2), Datetime(1)>>)}

Asset(href) == [href |-> href]

ItemValues ==
    {[assets |-> <<Asset(S3Prefix \o <<"b", "/", "o", "b">>)>>],
     [assets |-> <<Asset(HttpsPrefix \o <<"h", "/", "o", "b", "/", "b">>),
                   Asset(S3Prefix \o <<"b", "/", "o", "b">>)>>],
     [assets |-> <<Asset(HttpsPrefix \o <<"h", "/", "B", "/", "o", "b">>)>>],
     [assets |-> <<Asset(S3Prefix \o <<"h", "/", "b">>)>>],
     [assets |-> <<Asset(HttpsPrefix \o <<"h", "/", "b">>)>>],
     [assets |-> <<>>]}

RECURSIVE ListsOfLen(_, _)
ListsOfLen(S, n) ==
    IF n = 0 THEN {<<>>}
    ELSE {l \o <<x>> : l \in ListsOfLen(S, n - 1), x \in S}

ItemsArgs ==
    {[isList |-> TRUE, elems |-> l] : l \in UNION {ListsOfLen(ItemValues, n) : n \in 0..MaxItems}}
    \cup {[isList |-> FALSE, elems |-> <<[assets |-> <<Asset(S3Prefix \o <<"b", "/", "o", "b">>)>>]>>]}

FewItemsArgs ==
    {[isList |-> TRUE, elems |-> <<[assets |-> <<Asset(S3Prefix \o <<"b", "/", "o", "b">>)>>]>>],
     [isList |-> TRUE, elems |-> <<[assets |-> <<Asset(HttpsPrefix \o <<"h", "/", "o", "b", "/", "b">>)>>]>>],
     [isList |-> TRUE, elems |-> <<[assets |-> <<Asset(HttpsPrefix \o <<"h", "/", "b">>)>>]>>]}

Ref == [kind |-> "ref", v |-> 0]

Lit(v) == [kind |-> "lit", v |-> v]

Absent == [kind |-> "absent", v |-> 0]

Node(process_id, x, y) == [process_id |-> process_id, arguments |-> [x |-> x, y |-> y]]

NodeValues == {Node("eq", Ref, Lit(100)), Node("=", Lit(200), Ref),
               Node("lt", Ref, Lit(300)), Node("is_valid", Absent, Lit(100))}

Level == <<"level">>

Time == <<"time">>

PropertyNames ==
    {<<"cube:dimensions", ".", "level", ".", "process_graph">>,
     <<"cube:dimensions_extra", ".", "time">>,
     <<"cube:dimensions">>,
     <<"eo:cloud_cover">>}

\* the properties of one name whose graph has n nodes
PropertyEntries(n) ==
    {[name |-> nm, process_graph |-> [isDict |-> TRUE, nodes |-> g]] :
        nm \in PropertyNames, g \in ListsOfLen(NodeValues, n)}
    \cup (IF n = 0
          THEN {[name |-> <<"cube:dimensions", ".", "level", ".", "process_graph">>,
                 process_graph |-> [isDict |-> FALSE, nodes |-> <<>>]]}
          ELSE {})

\* dicts of at most k properties (of different names) and n nodes in all
RECURSIVE PropertyDicts(_, _)
PropertyDicts(k, n) ==
    IF k = 0 THEN {<<>>}
    ELSE {<<>>} \cup UNION {
            {<<pr[1]>> \o pr[2] :
                pr \in {q \in PropertyEntries(g) \X PropertyDicts(k - 1, n - g) :
                           \A i \in 1..Len(q[2]) : q[2][i].name # q[1].name}} :
            g \in 0..n}

NoProperties == [kind |-> "none", entries |-> <<>>]

PropertiesArgs ==
    {NoProperties, [kind |-> "list", entries |-> <<>>]}
    \cup {[kind |-> "dict", entries |-> d] : d \in PropertyDicts(MaxProps, MaxNodes)}

Args(items, bbox, temporal_extent, properties) ==
    [items |-> items, bands |-> <<"B02">>, bbox |-> bbox,
     temporal_extent |-> temporal_extent, properties |-> properties]

\* every argument varies over its whole set while the others vary over a few
\* of their values, a valid and an invalid one among them
ArgsSet ==
    {Args(i, b, t, NoProperties) : i \in FewItemsArgs, b \in BboxArgs, t \in FewTemporalArgs}
    \cup {Args(i, b, t, NoProperties) : i \in FewItemsArgs, b \in FewBboxArgs, t \in TemporalArgs}
    \cup {Args(i, b, t, NoProperties) : i \in ItemsArgs, b \in FewBboxArgs, t \in FewTemporalArgs}
    \cup {Args([isList |-> TRUE, elems |-> <<[assets |-> <<Asset(S3Prefix \o <<"b", "/", "o", "b">>)>>]>>],
                Tuple(<<0, 0, 10, 10>>), Extent(<<Datetime(1), NoneValue>>), p) :
            p \in PropertiesArgs}

\* datasets, as the coordinate values of each dimension
Datasets ==
    {(Level :> {100, 200}) @@ (Time :> {100, 200, 300}) @@ (<<"x">> :> {1, 2}),
     (Level :> {200, 300}) @@ (<<"x">> :> {1, 2})}

Init ==
    /\ pc = "new"
    /\ args \in ArgsSet
    /\ reader = NoReader
    /\ calls = <<>>
    /\ ret = NoRet
    /\ url = <<>>
    /\ item = NoItem

CallGetExtraDimensionsFilter ==
    /\ pc = "ready"
    /\ ret' = Ret("get_extra_dimensions_filter", GetExtraDimensionsFilter(reader.properties), <<>>)
    /\ UNCHANGED <<pc, args, reader, calls, url, item>>

CallFilterByExtraDimensions ==
    /\ pc = "ready"
    /\ \E dataset \in Datasets :
          ret' = Ret("_filter_by_extra_dimensions",
                     FilterByExtraDimensions(reader.properties, dataset), dataset)
    /\ UNCHANGED <<pc, args, reader, calls, url, item>>

CallGetPolygon ==
    /\ pc = "ready"
    /\ ret' = Ret("get_polygon", GetPolygon(reader), <<>>)
    /\ UNCHANGED <<pc, args, reader, calls, url, item>>

CallCreateBoto3Session ==
    /\ pc = "ready"
    /\ ret' = Ret("_create_boto3_session", CreateBoto3Session(reader), <<>>)
    /\ UNCHANGED <<pc, args, reader, calls, url, item>>

CallCreateS3Filesystem ==
    /\ pc = "ready"
    /\ ret' = Ret("create_s3filesystem", CreateS3Filesystem(reader), <<>>)
    /\ UNCHANGED <<pc, args, reader, calls, url, item>>

Next ==
    \/ Validate
    \/ DeriveBucket
    \/ FetchCredentials
    \/ SetRegion
    \/ CallGetExtraDimensionsFilter
    \/ CallFilterByExtraDimensions
    \/ CallGetPolygon
    \/ CallCreateBoto3Session
    \/ CallCreateS3Filesystem

Spec == Init /\ [][Next]_vars

(***************************************************************************)
(* _get_epsg and _get_resolution.  An item is the values of its            *)
(* properties["cube:dimensions"] in insertion order; value.get("step") and *)
(* value.get("reference_system") are [isNone, v], None for a missing key   *)
(* as for a null one.                                                      *)
(***************************************************************************)
None == [isNone |-> TRUE, v |-> 0]

Some(v) == [isNone |-> FALSE, v |-> v]

\* np.abs
Abs(n) == IF n < 0 THEN -n ELSE n

RECURSIVE EpsgLoop(_, _)
EpsgLoop(cube_dims, epsg) ==
    IF cube_dims = <<>> THEN epsg
    ELSE LET value == Head(cube_dims)
         IN EpsgLoop(Tail(cube_dims),
                     IF ~value.reference_system.isNone THEN value.reference_system
                     ELSE epsg)

GetEpsg(it) == Returned(EpsgLoop(it, None))

\* float(np.abs(step)) is the number |step|
RECURSIVE ResolutionLoop(_, _)
ResolutionLoop(cube_dims, resolution) ==
    IF cube_dims = <<>> THEN resolution
    ELSE LET value == Head(cube_dims)
         IN ResolutionLoop(Tail(cube_dims),
                           IF ~value.step.isNone THEN Some(Abs(value.step.v))
                           ELSE resolution)

\* the loop of _get_resolution stopping at the first step
RECURSIVE ResolutionFirst(_)
ResolutionFirst(cube_dims) ==
    IF cube_dims = <<>> THEN [isNone |-> TRUE, v |-> 0]
    ELSE IF ~Head(cube_dims).step.isNone
         THEN [isNone |-> FALSE, v |-> Abs(Head(cube_dims).step.v)]
         ELSE ResolutionFirst(Tail(cube_dims))

GetResolution_FirstWins(it) == [ok |-> TRUE, val |-> ResolutionFirst(it)]

GetResolution(it) == Returned(ResolutionLoop(it, None))

\* Bound of the cube:dimensions inputs
MaxDims == 3

DimensionValues ==
    {[step |-> st, reference_system |-> rs] :
        st \in {None, Some(-10), Some(0), Some(5)},
        rs \in {None, Some(4326), Some(32632)}}

CubeDimensions == UNION {ListsOfLen(DimensionValues, n) : n \in 0..MaxDims}

InitDims ==
    /\ item \in CubeDimensions
    /\ ret = NoRet
    /\ pc = "static"
    /\ args = NoArgs
    /\ reader = NoReader
    /\ calls = <<>>
    /\ url = <<>>

CallGetEpsg ==
    /\ pc = "static"
    /\ ret' = Ret("_get_epsg", GetEpsg(item), item)
    /\ UNCHANGED <<pc, args, reader, calls, url, item>>

CallGetResolution ==
    /\ pc = "static"
    /\ ret' = Ret("_get_resolution", GetResolution(item), item)
    /\ UNCHANGED <<pc, args, reader, calls, url, item>>

NextDims ==
    \/ CallGetEpsg
    \/ CallGetResolution

SpecDims == InitDims /\ [][NextDims]_vars

(***************************************************************************)
(* Claims about the URL helpers (checked under SpecUrl)                    *)
(***************************************************************************)
\* The segment of a path between its first character and the next slash
\* (no element when there is no such slash).
BucketSegments(path) ==
    {SubSeq(path, 2, k - 1) : k \in {k \in 2..Len(path) :
        path[k] = "/" /\ \A j \in 2..(k - 1) : path[j] # "/"}}

\* u read as scheme://host/bucket/object with an http or https scheme and a
\* non-empty bucket; the object is whatever follows the bucket's slash.
HttpForms(u) ==
    LET l == Lower(u)
        pre == IF StartsWith(l, HttpsPrefix) THEN Len(HttpsPrefix)
               ELSE IF StartsWith(l, HttpPrefix) THEN Len(HttpPrefix) ELSE 0
        rest == SliceFrom(u, pre)
        i == Find(rest, "/", 0)
        j == Find(rest, "/", i + 1)
    IN IF pre = 0 \/ i < 0 \/ j < 0 \/ j = i + 1 THEN {}
       ELSE {[host |-> Slice(rest, 0, i), bucket |-> Slice(rest, i + 1, j),
              object |-> SliceFrom(rest, j + 1)]}

Chars(s) == {s[i] : i \in 1..Len(s)}

\* C3 as stated: the hostname for every s3 URL; otherwise the first path
\* segment after the leading slash, and a failure when no separator follows it.
C3_Claim ==
    ret.op = "_extract_bucket_name_from_url" =>
        LET p == UrlParse(ret.arg)
            host == Hostname(p.netloc)
        IN IF p.scheme = S3Scheme
           THEN ret.ok /\ host.isStr /\ ret.val = host.val
           ELSE /\ \A seg \in BucketSegments(p.path) :
                      (seg # <<>> /\ p.path[1] = "/") => (ret.ok /\ ret.val = seg)
                /\ BucketSegments(p.path) = {} => ~ret.ok

\* C3 (amended): _extract_bucket_name_from_url returns the lower-cased URL
\* hostname for every s3 URL that has a hostname; for every other URL (another
\* scheme, or s3 without a hostname) it returns the part of the path between
\* its first character and the next slash, and fails when there is no such
\* slash or that part is empty.
C3_Thm ==
    ret.op = "_extract_bucket_name_from_url" =>
        LET p == UrlParse(ret.arg)
            host == Hostname(p.netloc)
        IN IF p.scheme = S3Scheme /\ host.isStr
           THEN ret.ok /\ ret.val = host.val
           ELSE /\ \A seg \in BucketSegments(p.path) :
                      seg # <<>> => (ret.ok /\ ret.val = seg)
                /\ BucketSegments(p.path) \subseteq {<<>>} => ~ret.ok

C3_Witness ==
    /\ ret.op = "_extract_bucket_name_from_url"
    /\ ret.ok
    /\ UrlParse(ret.arg).scheme = S3Scheme
    /\ ~Hostname(UrlParse(ret.arg).netloc).isStr
    /\ ret.val = <<"b">>

\* C4 as stated, for the URLs that name a host: _get_object fails exactly when
\* _extract_bucket_name_from_url fails on the same URL, and otherwise returns
\* the part of the path that follows the bucket segment that
\* _extract_bucket_name_from_url returns.
C4_Claim ==
    ret.op = "_get_object" =>
        LET p == UrlParse(ret.arg)
            host == Hostname(p.netloc)
            bucket == ExtractBucketNameFromUrl(ret.arg)
        IN host.isStr =>
             /\ ret.ok <=> bucket.ok
             /\ ret.ok =>
                  IF p.scheme = S3Scheme
                  THEN ret.val = SliceFrom(p.path, 1)
                  ELSE p.path = <<"/">> \o bucket.val \o <<"/">> \o ret.val

\* C5 as stated (read for URLs without '?', '#' or ';', and "http" in any
\* letter case): every http(s) URL scheme://host/bucket/object converts to
\* exactly s3://bucket/object, whose bucket is the bucket of the original; a
\* URL that does not start with http fails.
C5_Claim ==
    ret.op = "_convert_https_to_s3" =>
        /\ \A f \in HttpForms(ret.arg) :
              Chars(ret.arg) \cap {"?", "#", ";"} = {} =>
                /\ ret.ok
                /\ ret.val = S3Prefix \o f.bucket \o <<"/">> \o f.object
                /\ ExtractBucketNameFromUrl(ret.val) = ExtractBucketNameFromUrl(ret.arg)
        /\ ~StartsWith(Lower(ret.arg), Http) => ~ret.ok

\* Characters a bucket name is made of when it survives the round trip
BucketChars == LowerLetters \cup Digits \cup {"-", "."}

\* C5 (amended): every http(s) URL scheme://host/bucket/object with a non-empty
\* bucket and without '?', '#' or ';' converts to exactly s3://bucket/object;
\* the bucket extracted from the converted URL is the bucket extracted from
\* the original when the bucket is made of lower-case letters, digits, '-'
\* and '.'; a URL that does not start with http in any letter case fails.
C5_Thm ==
    ret.op = "_convert_https_to_s3" =>
        /\ \A f \in HttpForms(ret.arg) :
              Chars(ret.arg) \cap {"?", "#", ";"} = {} =>
                /\ ret.ok
                /\ ret.val = S3Prefix \o f.bucket \o <<"/">> \o f.object
                /\ ExtractBucketNameFromUrl(ret.arg) = Returned(f.bucket)
                /\ Chars(f.bucket) \subseteq BucketChars =>
                      ExtractBucketNameFromUrl(ret.val) = Returned(f.bucket)
        /\ ~StartsWith(Lower(ret.arg), Http) => ~ret.ok

C5_Witness ==
    /\ ret.op = "_convert_https_to_s3"
    /\ ret.ok
    /\ ret.arg = HttpsPrefix \o <<"h", "/", "b", "/", "o", "b">>
    /\ ret.val = S3Prefix \o <<"b", "/", "o", "b">>

(***************************************************************************)
(* Claims about the cube:dimensions helpers (checked under SpecDims)       *)
(***************************************************************************)
\* the positions of the entries that have the field
WithStep(dims) == {i \in 1..Len(dims) : ~dims[i].step.isNone}

WithReferenceSystem(dims) == {i \in 1..Len(dims) : ~dims[i].reference_system.isNone}

Last(S) == CHOOSE i \in S : \A j \in S : j <= i

\* C7: _get_resolution returns the absolute value of the step of the last
\* cube:dimensions entry that has a step, _get_epsg the reference_system of
\* the last entry that has one, each nothing when no entry has the field;
\* with several such entries the result is the last one's, whatever the first.
C7_Thm ==
    /\ ret.op = "_get_resolution" =>
          /\ ret.ok
          /\ IF WithStep(ret.arg) = {} THEN ret.val.isNone
             ELSE LET step == ret.arg[Last(WithStep(ret.arg))].step.v
                  IN /\ ~ret.val.isNone
                     /\ ret.val.v >= 0
                     /\ ret.val.v \in {step, -step}
    /\ ret.op = "_get_epsg" =>
          /\ ret.ok
          /\ IF WithReferenceSystem(ret.arg) = {} THEN ret.val.isNone
             ELSE ret.val = ret.arg[Last(WithReferenceSystem(ret.arg))].reference_system

\* two entries with different steps, the first one's larger: the last one wins
C7_Witness ==
    /\ ret.op = "_get_resolution"
    /\ Cardinality(WithStep(ret.arg)) >= 2
    /\ ret.arg[Last(WithStep(ret.arg))].step.v = -10
    /\ \E i \in WithStep(ret.arg) : ret.arg[i].step.v = 5
    /\ ret.val = Some(10)

(***************************************************************************)
(* Claims about the reader (checked under Spec)                            *)
(***************************************************************************)
\* a bbox 4-tuple (west, south, east, north) in order and in range
ValidBbox(bbox) ==
    /\ bbox.isTuple
    /\ Len(bbox.elems) = 4
    /\ {bbox.elems[1], bbox.elems[3]} \subseteq -180..180
    /\ {bbox.elems[2], bbox.elems[4]} \subseteq -90..90
    /\ bbox.elems[3] - bbox.elems[1] >= 0
    /\ bbox.elems[4] - bbox.elems[2] >= 0

\* a start that is a point in time, and an end that is absent or not before it
OrderedExtent(te) ==
    /\ ~te.isNone
    /\ Len(te.elems) = 2
    /\ te.elems[1].kind = "datetime"
    /\ \/ te.elems[2].kind = "none"
       \/ te.elems[2].kind = "datetime" /\ te.elems[2].t >= te.elems[1].t

\* a non-empty item list whose first asset href is parsable
ParsableItems(items) ==
    /\ items.isList
    /\ items.elems # <<>>
    /\ items.elems[1].assets # <<>>
    /\ ExtractBucketNameFromUrl(items.elems[1].assets[1].href).ok

BboxInRange(b) ==
    /\ -180 <= b[1] /\ b[1] <= b[3] /\ b[3] <= 180
    /\ -90 <= b[2] /\ b[2] <= b[4] /\ b[4] <= 90

\* C2 as stated: a constructed reader has at least one item, a bbox in order
\* and in range, and a temporal extent whose start is a point in time with
\* start <= end whenever the end is present.
C2_Claim ==
    pc = "ready" =>
        /\ Len(reader.items) >= 1
        /\ BboxInRange(reader.bbox)
        /\ OrderedExtent(reader.temporal_extent)

Fields(r) == <<r.items, r.bbox, r.bands, r.temporal_extent, r.properties>>

\* C2 (amended): a constructed reader, after any sequence of calls to its
\* methods, has at least one item, a bbox in order and in range, and a temporal
\* extent that is None, empty, or has a start that is a point in time with
\* start <= end whenever the end is present; no method changes items, bbox,
\* bands, temporal extent or properties.
C2_Thm ==
    /\ [](pc = "ready" =>
            /\ Len(reader.items) >= 1
            /\ BboxInRange(reader.bbox)
            /\ \/ reader.temporal_extent.isNone
               \/ reader.temporal_extent.elems = <<>>
               \/ OrderedExtent(reader.temporal_extent))
    /\ [][pc = "ready" => (pc' = "ready" /\ Fields(reader)' = Fields(reader))]_vars

C2_Witness ==
    /\ pc = "ready"
    /\ ret.op = "_filter_by_extra_dimensions"
    /\ reader.temporal_extent = Extent(<<Datetime(1), Datetime(2)>>)

\* the dimension a property name gives: what lies between its first and its
\* second dot (or its end)
DimensionOf(name) ==
    LET dots == {i \in 1..Len(name) : name[i] = "."}
        first == CHOOSE i \in dots : \A j \in dots : i <= j
        later == {i \in dots : i > first} \cup {Len(name) + 1}
        second == CHOOSE i \in later : \A j \in later : i <= j
    IN SubSeq(name, first + 1, second - 1)

\* the non-parameter-reference operand of a node
Operand(node) ==
    IF node.arguments.x.kind = "ref" THEN node.arguments.y ELSE node.arguments.x

\* the operands of the eq/= nodes of the cube:dimensions properties of a dimension
EqOperands(properties, d) ==
    IF properties.kind # "dict" THEN {}
    ELSE UNION {
            {Operand(e.process_graph.nodes[i]) :
                i \in {i \in 1..Len(e.process_graph.nodes) :
                          e.process_graph.nodes[i].process_id \in {"eq", "="}}} :
            e \in {e \in {properties.entries[k] : k \in 1..Len(properties.entries)} :
                      /\ e.name[1] \in {"cube:dimensions", "cube:dimensions_extra"}
                      /\ "." \in Chars(e.name)
                      /\ DimensionOf(e.name) = d}}

Dimensions == {Level, Time, <<"x">>, <<>>}

CarriesScheme(e) == \E i \in 1..Len(e) : Slice(e, i, i + 3) = <<":", "/", "/">>

\* C8 as stated (letter case aside): anonymous access disabled, the stored key
\* and secret, the stored endpoint unchanged when it carries a scheme and
\* prefixed with https:// exactly when it has none.
C8_Claim ==
    ret.op = "create_s3filesystem" =>
        /\ ret.val.anon = FALSE
        /\ ret.val.key = reader.access_key_id
        /\ ret.val.secret = reader.secret_access_key
        /\ Lower(ret.val.endpoint_url) =
              IF CarriesScheme(reader._endpoint) THEN Lower(reader._endpoint)
              ELSE HttpsPrefix \o Lower(reader._endpoint)

\* C8 (amended): create_s3filesystem builds the handle with anonymous access
\* disabled and the stored key and secret; the endpoint URL is the stored
\* endpoint in lower case when that starts with https://, and https://
\* followed by the stored endpoint in lower case otherwise (also when it
\* carries another scheme, such as http://).
C8_Thm ==
    ret.op = "create_s3filesystem" =>
        /\ ret.ok
        /\ ret.val.anon = FALSE
        /\ ret.val.key = reader.access_key_id
        /\ ret.val.secret = reader.secret_access_key
        /\ StartsWith(ret.val.endpoint_url, HttpsPrefix)
        /\ LET stored == Lower(reader._endpoint)
               url_rest == SliceFrom(ret.val.endpoint_url, Len(HttpsPrefix))
           IN IF Slice(stored, 0, Len(HttpsPrefix)) = HttpsPrefix
              THEN ret.val.endpoint_url = stored
              ELSE url_rest = stored

C8_Witness ==
    /\ ret.op = "create_s3filesystem"
    /\ reader._endpoint = HttpPrefix \o <<"h">>
    /\ ret.val.endpoint_url = HttpsPrefix \o HttpPrefix \o <<"h">>

IsCredentialCall(c) == c.fn = "get_credentials_by_bucket"

IsRegionCall(c) == c.fn = "parse_region"

\* C9: during one construction the credential provider is called at most
\* once, only after the item-list, bbox and temporal-extent validations have
\* passed, and with the bucket of the href of the first asset of the first
\* item; when a validation or the bucket extraction fails, neither the
\* provider nor the region parser is ever called.
C9_Thm ==
    /\ Len(SelectSeq(calls, IsCredentialCall)) <= 1
    /\ Len(SelectSeq(calls, IsRegionCall)) <= 1
    /\ calls # <<>> =>
          /\ IsCredentialCall(calls[1])
          /\ ParsableItems(args.items)
          /\ ValidBbox(args.bbox)
          /\ \/ args.temporal_extent.isNone
             \/ args.temporal_extent.elems = <<>>
             \/ OrderedExtent(args.temporal_extent)
          /\ calls[1].arg = ExtractBucketNameFromUrl(args.items.elems[1].assets[1].href).val
    /\ Len(calls) > 1 => (Len(calls) = 2 /\ IsRegionCall(calls[2]))
    /\ pc \in {"new", "validated", "extracted", "failed"} => calls = <<>>

C9_Witness ==
    /\ pc = "ready"
    /\ Len(args.items.elems) = 2
    /\ Len(args.items.elems[1].assets) = 2
    /\ calls[1] = [fn |-> "get_credentials_by_bucket", arg |-> <<"o", "b">>]
    /\ args.items.elems[2].assets # <<>>
    /\ ExtractBucketNameFromUrl(args.items.elems[2].assets[1].href).val = <<"B">>

\* the dataset narrowed to the single value a mapping gives for each of its
\* dimensions, the other dimensions unchanged
Narrowed(dataset, mapping) ==
    [d \in DOMAIN dataset |->
        IF d \in DOMAIN mapping THEN {mapping[d].v} ELSE dataset[d]]

\* the mapping's values are coordinates of the dataset
Selectable(dataset, mapping) ==
    \A d \in DOMAIN mapping :
        /\ d \in DOMAIN dataset
        /\ mapping[d].kind = "lit"
        /\ mapping[d].v \in dataset[d]

\* C10 as stated: for every properties mapping and dataset (on which
\* get_extra_dimensions_filter returns a mapping of coordinates of the
\* dataset), _filter_by_extra_dimensions returns the dataset narrowed to the
\* value that mapping gives for each of its dimensions.
C10_Claim ==
    ret.op = "_filter_by_extra_dimensions" =>
        LET mapping == GetExtraDimensionsFilter(reader.properties)
        IN (mapping.ok /\ Selectable(ret.arg, mapping.val)) =>
              (ret.ok /\ ret.val = Narrowed(ret.arg, mapping.val))

\* C10 (amended): whenever _filter_by_extra_dimensions returns, it returns
\* the dataset narrowed, for each dimension in the mapping that
\* get_extra_dimensions_filter returns on the same reader, to the single
\* coordinate value that mapping gives, every other dimension unchanged; it
\* returns whenever that mapping's values are coordinates of the dataset and
\* all the eq/= nodes of each dimension carry one value, and raises when two
\* eq/= nodes of one dimension carry different values.
C10_Thm ==
    ret.op = "_filter_by_extra_dimensions" =>
        LET mapping == GetExtraDimensionsFilter(reader.properties)
            oneValue == \A d \in Dimensions :
                           Cardinality(EqOperands(reader.properties, d)) <= 1
        IN /\ ret.ok =>
                /\ mapping.ok
                /\ Selectable(ret.arg, mapping.val)
                /\ oneValue
                /\ ret.val = Narrowed(ret.arg, mapping.val)
           /\ (mapping.ok /\ Selectable(ret.arg, mapping.val) /\ oneValue) => ret.ok

C10_Witness ==
    /\ ret.op = "_filter_by_extra_dimensions"
    /\ ret.ok
    /\ ret.arg = (Level :> {100, 200}) @@ (Time :> {100, 200, 300}) @@ (<<"x">> :> {1, 2})
    /\ ret.val = (Level :> {100}) @@ (Time :> {200}) @@ (<<"x">> :> {1, 2})

====
